---- MODULE Spec2Model ----
(***************************************************************************)
(* A model of solve.c: the k-mer counter built from a Karp-Rabin rolling   *)
(* hash, an open-addressed table of start positions, a threshold filter    *)
(* and a sort by descending count.                                         *)
(*                                                                         *)
(* C arrays are modelled as functions over 0..len-1, so that every index   *)
(* of the model is the index the C code uses.                              *)
(***************************************************************************)
EXTENDS Integers, Sequences, FiniteSets, TLC

VARIABLES
  pc,                 \* position of main
  k,                  \* atol(argv[2])
  min_frequency,      \* atof(argv[3]), as a fraction <<numerator, denominator>>
  file_length,        \* ftell(fin)
  data,               \* the bytes read from the file
  max_possible_count,
  min_count,
  modulus,
  overflow,           \* ghost: a signed 32-bit operation of get_modulus overflowed
  count_array,
  hash_table,
  top_one,            \* local of do_counts
  hash_value,         \* local of do_counts
  i,                  \* loop index of do_counts
  calls,              \* ghost: one record per call of hash_add, in call order
  nresults,
  results_array,
  written,            \* ghost: number of entries the fill loop stored (current_result_index)
  output              \* the lines printed

vars == <<pc, k, min_frequency, file_length, data, max_possible_count, min_count,
          modulus, overflow, count_array, hash_table, top_one, hash_value, i,
          calls, nresults, results_array, written, output>>

(***************************************************************************)
(* Program constants.                                                      *)
(***************************************************************************)
BASE == 257
MinKmerSize == 2
MaxKmerSize == 100
MaxFileLength == 100000000
INT_MAX == 2147483647
EmptySlot == -1

(***************************************************************************)
(* Bounds of the model.                                                    *)
(***************************************************************************)
\* Every buffer over Alphabet of length 0..MaxLen is read.
MaxLen == 5
\* k-mer sizes 1..MaxK are tried (1 is invalid), and MaxKmerSize + 1.
MaxK == 3
\* One longer file length, whose table has more than 256 slots, so that BASE
\* is not congruent to 1 modulo the table size; its buffers are periodic.
LongLen == 86
\* The period of the buffers of length LongLen.
PatternLen == 2
\* get_modulus is also run on every length 0..MaxSizerLen (and on lengths
\* around each power of two and around MaxFileLength).
MaxSizerLen == 64

Alphabet == {0, 66, 255}
KValues == (1..MaxK) \cup {MaxKmerSize + 1}
\* 0, 0.4 and 1.0
Frequencies == {<<0, 1>>, <<2, 5>>, <<1, 1>>}
FileLengths == (0..MaxLen) \cup {LongLen, MaxFileLength + 1}

Buffers(n) ==
  IF n <= MaxLen
  THEN [0..(n - 1) -> Alphabet]
  ELSE {[p \in 0..(n - 1) |-> pat[p % PatternLen]] : pat \in [0..(PatternLen - 1) -> Alphabet]}

(***************************************************************************)
(* uint64_t arithmetic: a value is four 16-bit limbs, least significant    *)
(* first; every operation wraps modulo 2^64 as the C operation does.       *)
(***************************************************************************)
Limb == 65536

\* conversion of a non-negative int to uint64_t
U64(n) == <<n % Limb, (n \div Limb) % Limb, 0, 0>>

u64_add(x, y) ==
  LET s1 == x[1] + y[1]
      s2 == x[2] + y[2] + (s1 \div Limb)
      s3 == x[3] + y[3] + (s2 \div Limb)
      s4 == x[4] + y[4] + (s3 \div Limb)
  IN  <<s1 % Limb, s2 % Limb, s3 % Limb, s4 % Limb>>

u64_sub(x, y) ==
  LET d1 == x[1] - y[1]
      b1 == IF d1 < 0 THEN 1 ELSE 0
      d2 == x[2] - y[2] - b1
      b2 == IF d2 < 0 THEN 1 ELSE 0
      d3 == x[3] - y[3] - b2
      b3 == IF d3 < 0 THEN 1 ELSE 0
      d4 == x[4] - y[4] - b3
      b4 == IF d4 < 0 THEN 1 ELSE 0
  IN  <<d1 + b1 * Limb, d2 + b2 * Limb, d3 + b3 * Limb, d4 + b4 * Limb>>

\* x * c for a factor 0 <= c < 2^15 (BASE, or one byte of the data)
u64_mul(x, c) ==
  LET p1 == x[1] * c
      p2 == x[2] * c + (p1 \div Limb)
      p3 == x[3] * c + (p2 \div Limb)
      p4 == x[4] * c + (p3 \div Limb)
  IN  <<p1 % Limb, p2 % Limb, p3 % Limb, p4 % Limb>>

RECURSIVE BitAnd(_, _)
BitAnd(a, b) ==
  IF a = 0 \/ b = 0 THEN 0
  ELSE (a % 2) * (b % 2) + 2 * BitAnd(a \div 2, b \div 2)

u64_and(x, y) == <<BitAnd(x[1], y[1]), BitAnd(x[2], y[2]), BitAnd(x[3], y[3]), BitAnd(x[4], y[4])>>

\* conversion of a uint64_t to int; -1 stands for a value that does not fit
U64ToInt(x) ==
  IF x[3] = 0 /\ x[4] = 0 /\ x[2] < 32768 THEN x[1] + Limb * x[2] ELSE -1

(***************************************************************************)
(* compare_sortme                                                          *)
(***************************************************************************)
compare_sortme_ascending(first, second) == first.count - second.count

compare_sortme(first, second) == second.count - first.count

\* whether the int subtraction second - first leaves the range of int
SubOverflows(second, first) ==
  \/ first < 0 /\ second > INT_MAX + first
  \/ first > 0 /\ second < (-INT_MAX - 1) + first

(***************************************************************************)
(* get_top_one                                                             *)
(***************************************************************************)
RECURSIVE TopOneLoop(_, _, _, _)
TopOneLoop(top, j, kk, mask) ==
  IF j < kk
  THEN TopOneLoop(u64_and(u64_mul(top, BASE), mask), j + 1, kk, mask)
  ELSE top

get_top_one_short(kk, m) == U64ToInt(TopOneLoop(U64(1), 1, kk, U64(m - 1)))

get_top_one(kk, m) == U64ToInt(TopOneLoop(U64(1), 0, kk, U64(m - 1)))

(***************************************************************************)
(* hash_add                                                                *)
(***************************************************************************)
\* memcmp(data + a, data + b, n): the sign of the first difference
RECURSIVE Memcmp(_, _, _, _)
Memcmp(d, a, b, n) ==
  IF n = 0 THEN 0
  ELSE IF d[a] # d[b] THEN (IF d[a] < d[b] THEN -1 ELSE 1)
  ELSE Memcmp(d, a + 1, b + 1, n - 1)

SameKmer_by_position(d, index, observed_index, kk) == index = observed_index

SameKmer_prefix(d, index, observed_index, kk) == Memcmp(d, index, observed_index, kk - 1) = 0

\* the negation of the second conjunct of the loop condition
SameKmer(d, index, observed_index, kk) == Memcmp(d, index, observed_index, kk) = 0

NextSlot(current_position, mask) == BitAnd(current_position + 1, mask)

\* The probe loop. A pass over mask + 1 slots that finds neither an empty
\* slot nor the k-mer has seen the whole table, which the loop does not
\* change: the loop then never ends (terminated = FALSE).
RECURSIVE Probe(_, _, _, _, _, _, _)
Probe(table, mask, d, index, kk, current_position, steps) ==
  LET observed_index == table[current_position] IN
  IF observed_index # EmptySlot /\ ~SameKmer(d, index, observed_index, kk)
  THEN IF steps >= mask
       THEN [terminated |-> FALSE, current_position |-> current_position,
             observed_index |-> observed_index, steps |-> steps + 1]
       ELSE Probe(table, mask, d, index, kk, NextSlot(current_position, mask), steps + 1)
  ELSE [terminated |-> TRUE, current_position |-> current_position,
        observed_index |-> observed_index, steps |-> steps]

hash_add(table, mask, d, hv, index, counts, kk) ==
  LET p == Probe(table, mask, d, index, kk, hv, 0)
      claimed == p.observed_index = EmptySlot
      observed_index == IF claimed THEN index ELSE p.observed_index
  IN  [terminated |-> p.terminated,
       steps |-> p.steps,
       slot |-> p.current_position,
       claimed |-> claimed,
       observed_index |-> observed_index,
       table |-> IF p.terminated /\ claimed
                 THEN [table EXCEPT ![p.current_position] = observed_index]
                 ELSE table,
       counts |-> IF p.terminated
                  THEN [counts EXCEPT ![observed_index] = @ + 1]
                  ELSE counts]

(***************************************************************************)
(* get_modulus                                                             *)
(***************************************************************************)
RECURSIVE ModulusLoop(_, _, _)
ModulusLoop(m, limit, shift) ==
  IF m < limit
  THEN IF m > INT_MAX \div shift
       THEN [m |-> m, overflow |-> TRUE]
       ELSE ModulusLoop(m * shift, limit, shift)
  ELSE [m |-> m, overflow |-> FALSE]

get_modulus_shift2(fl) ==
  IF fl > INT_MAX \div 3 THEN [m |-> 1, overflow |-> TRUE] ELSE ModulusLoop(1, fl * 3, 4)

get_modulus_no_factor(fl) == ModulusLoop(1, fl, 2)

\* [m |-> the value returned, overflow |-> whether file_length * 3 or m <<= 1 overflowed]
get_modulus(fl) ==
  IF fl > INT_MAX \div 3 THEN [m |-> 1, overflow |-> TRUE] ELSE ModulusLoop(1, fl * 3, 2)

(***************************************************************************)
(* do_counts                                                               *)
(***************************************************************************)
\* the initial hash: the loop over data[0 .. k-1]
RECURSIVE InitialHashLoop(_, _, _, _, _)
InitialHashLoop(hv, j, d, kk, mask) ==
  IF j < kk
  THEN InitialHashLoop(u64_and(u64_add(u64_mul(hv, BASE), U64(d[j])), mask), j + 1, d, kk, mask)
  ELSE hv

InitialHash(d, kk, mask) == U64ToInt(InitialHashLoop(U64(0), 0, d, kk, U64(mask)))

\* the rolling update from the window at ii to the window at ii + 1
RollHash(hv, d, ii, kk, top, mask) ==
  U64ToInt(u64_and(u64_sub(u64_add(u64_mul(U64(hv), BASE), U64(d[ii + kk])),
                           u64_mul(U64(top), d[ii])),
                   U64(mask)))

RollLimit_short(fl, kk) == fl - kk - 1

\* the bound of the rolling loop
RollLimit(fl, kk) == fl - kk

(***************************************************************************)
(* get_nresults and the selection loop of main                             *)
(***************************************************************************)
RECURSIVE CountFrom(_, _, _, _)
CountFrom(counts, j, limit, mc) ==
  IF j < limit
  THEN (IF counts[j] >= mc THEN 1 ELSE 0) + CountFrom(counts, j + 1, limit, mc)
  ELSE 0

get_nresults_short(counts, fl, mc) == CountFrom(counts, 1, fl, mc)

get_nresults(counts, fl, mc) == CountFrom(counts, 0, fl, mc)

RECURSIVE SelectLoop(_, _, _, _, _)
SelectLoop(counts, j, limit, mc, strict) ==
  IF j < limit
  THEN (IF (IF strict THEN counts[j] > mc ELSE counts[j] >= mc)
        THEN <<[index |-> j, count |-> counts[j]]>>
        ELSE <<>>) \o SelectLoop(counts, j + 1, limit, mc, strict)
  ELSE <<>>

Select_strict(counts, mpc, mc) == SelectLoop(counts, 0, mpc, mc, TRUE)

\* the entries the selection loop stores, in the order it stores them
Select(counts, mpc, mc) == SelectLoop(counts, 0, mpc, mc, FALSE)

\* an entry of results_array that malloc returned and nothing has written
Uninitialized == [index |-> -1, count |-> -1]

\* results_array after the selection loop: nres entries were allocated; an
\* entry stored at or past nres is a write outside the array
FillResults(sel, nres) ==
  [j \in 0..(nres - 1) |-> IF j < Len(sel) THEN sel[j + 1] ELSE Uninitialized]

\* qsort: any arrangement of the array that the comparator accepts as sorted
SortedArrangements(arr, n) ==
  {p \in [0..(n - 1) -> 0..(n - 1)] :
     /\ \A a, b \in 0..(n - 1) : a # b => p[a] # p[b]
     /\ \A a \in 0..(n - 2) : compare_sortme(arr[p[a]], arr[p[a + 1]]) <= 0}

\* (int) (min_frequency * max_possible_count + 0.5), truncated towards zero
TruncDiv(a, b) == IF a >= 0 THEN a \div b ELSE -((-a) \div b)

MinCount(freq, mpc) ==
  LET raw == IF freq[1] > 0
             THEN TruncDiv(2 * freq[1] * mpc + freq[2], 2 * freq[2])
             ELSE 0
  IN  IF raw < 1 THEN 1 ELSE raw

Window(d, start, kk) == [j \in 0..(kk - 1) |-> d[start + j]]

(***************************************************************************)
(* main                                                                    *)
(***************************************************************************)
Init ==
  /\ pc = "check_k"
  /\ k \in KValues
  /\ min_frequency \in Frequencies
  /\ file_length = 0
  /\ data = <<>>
  /\ max_possible_count = 0
  /\ min_count = 0
  /\ modulus = 0
  /\ overflow = FALSE
  /\ count_array = <<>>
  /\ hash_table = <<>>
  /\ top_one = 0
  /\ hash_value = 0
  /\ i = 0
  /\ calls = <<>>
  /\ nresults = 0
  /\ results_array = <<>>
  /\ written = 0
  /\ output = <<>>

\* check the requested k-mer size
CheckK ==
  /\ pc = "check_k"
  /\ pc' = IF k < MinKmerSize \/ k > MaxKmerSize THEN "exit_error" ELSE "open_file"
  /\ UNCHANGED <<k, min_frequency, file_length, data, max_possible_count, min_count,
                 modulus, overflow, count_array, hash_table, top_one, hash_value, i,
                 calls, nresults, results_array, written, output>>

\* fopen, and the length of the file
OpenFile ==
  /\ pc = "open_file"
  /\ \E opened \in BOOLEAN :
       IF opened
       THEN /\ pc' = "check_length"
            /\ file_length' \in FileLengths
       ELSE /\ pc' = "exit_error"
            /\ UNCHANGED file_length
  /\ UNCHANGED <<k, min_frequency, data, max_possible_count, min_count,
                 modulus, overflow, count_array, hash_table, top_one, hash_value, i,
                 calls, nresults, results_array, written, output>>

CheckLength ==
  /\ pc = "check_length"
  /\ pc' = IF file_length > MaxFileLength THEN "exit_error" ELSE "read_file"
  /\ UNCHANGED <<k, min_frequency, file_length, data, max_possible_count, min_count,
                 modulus, overflow, count_array, hash_table, top_one, hash_value, i,
                 calls, nresults, results_array, written, output>>

ReadFile ==
  /\ pc = "read_file"
  /\ data' \in Buffers(file_length)
  /\ pc' = "setup"
  /\ UNCHANGED <<k, min_frequency, file_length, max_possible_count, min_count,
                 modulus, overflow, count_array, hash_table, top_one, hash_value, i,
                 calls, nresults, results_array, written, output>>

\* min_count, the modulus, the zeroed count array and the table of invalid indices
Setup ==
  /\ pc = "setup"
  /\ max_possible_count' = (file_length - k) + 1
  /\ min_count' = MinCount(min_frequency, (file_length - k) + 1)
  /\ modulus' = get_modulus(file_length).m
  /\ overflow' = get_modulus(file_length).overflow
  /\ count_array' = [j \in 0..(file_length - 1) |-> 0]
  /\ hash_table' = [j \in 0..(get_modulus(file_length).m - 1) |-> EmptySlot]
  /\ pc' = "do_counts"
  /\ UNCHANGED <<k, min_frequency, file_length, data, top_one, hash_value, i,
                 calls, nresults, results_array, written, output>>

CallRecord(r, index, hv) ==
  [index |-> index, hash_value |-> hv, counter |-> r.observed_index,
   slot |-> r.slot, steps |-> r.steps, claimed |-> r.claimed]

\* do_counts up to the first hash_add
DoCountsStart ==
  /\ pc = "do_counts"
  /\ k <= file_length
  /\ LET mask == modulus - 1
         hv == InitialHash(data, k, mask)
         r == hash_add(hash_table, mask, data, hv, 0, count_array, k)
     IN  /\ top_one' = get_top_one(k, modulus)
         /\ hash_value' = hv
         /\ hash_table' = r.table
         /\ count_array' = r.counts
         /\ calls' = Append(calls, CallRecord(r, 0, hv))
         /\ pc' = IF r.terminated THEN "rolling" ELSE "hang"
  /\ i' = 0
  /\ UNCHANGED <<k, min_frequency, file_length, data, max_possible_count, min_count,
                 modulus, overflow, nresults, results_array, written, output>>

\* do_counts with k > file_length: the initial hash reads data[file_length ..
\* k-1], past the end of the buffer malloc returned. The read either faults or
\* yields whatever lies there; in the second case main goes on and prints
\* from an entry of results_array that was never written (file_length >= 1),
\* or has incremented count_array[0] of an empty count array.
DoCountsOutOfBounds ==
  /\ pc = "do_counts"
  /\ k > file_length
  /\ pc' \in {"segfault", "undefined_output"}
  /\ UNCHANGED <<k, min_frequency, file_length, data, max_possible_count, min_count,
                 modulus, overflow, count_array, hash_table, top_one, hash_value, i,
                 calls, nresults, results_array, written, output>>

\* one iteration of the rolling loop
DoCountsRoll ==
  /\ pc = "rolling"
  /\ i < RollLimit(file_length, k)
  /\ LET mask == modulus - 1
         hv == RollHash(hash_value, data, i, k, top_one, mask)
         r == hash_add(hash_table, mask, data, hv, i + 1, count_array, k)
     IN  /\ hash_value' = hv
         /\ hash_table' = r.table
         /\ count_array' = r.counts
         /\ calls' = Append(calls, CallRecord(r, i + 1, hv))
         /\ pc' = IF r.terminated THEN "rolling" ELSE "hang"
  /\ i' = i + 1
  /\ UNCHANGED <<k, min_frequency, file_length, data, max_possible_count, min_count,
                 modulus, overflow, top_one, nresults, results_array, written, output>>

\* the rolling loop ends and do_counts returns
DoCountsReturn ==
  /\ pc = "rolling"
  /\ ~(i < RollLimit(file_length, k))
  /\ pc' = "counted"
  /\ UNCHANGED <<k, min_frequency, file_length, data, max_possible_count, min_count,
                 modulus, overflow, count_array, hash_table, top_one, hash_value, i,
                 calls, nresults, results_array, written, output>>

GetNResults ==
  /\ pc = "counted"
  /\ nresults' = get_nresults(count_array, file_length, min_count)
  /\ pc' = "select"
  /\ UNCHANGED <<k, min_frequency, file_length, data, max_possible_count, min_count,
                 modulus, overflow, count_array, hash_table, top_one, hash_value, i,
                 calls, results_array, written, output>>

\* malloc of results_array and the selection loop
FillResultsArray ==
  /\ pc = "select"
  /\ LET sel == Select(count_array, max_possible_count, min_count)
     IN  /\ results_array' = FillResults(sel, nresults)
         /\ written' = Len(sel)
         /\ pc' = IF Len(sel) > nresults THEN "heap_overflow" ELSE "sort"
  /\ UNCHANGED <<k, min_frequency, file_length, data, max_possible_count, min_count,
                 modulus, overflow, count_array, hash_table, top_one, hash_value, i,
                 calls, nresults, output>>

Qsort ==
  /\ pc = "sort"
  /\ IF \E j \in 0..(nresults - 1) : results_array[j] = Uninitialized
     THEN /\ pc' = "undefined_output"
          /\ UNCHANGED results_array
     ELSE /\ \E p \in SortedArrangements(results_array, nresults) :
               results_array' = [j \in 0..(nresults - 1) |-> results_array[p[j]]]
          /\ pc' = "print"
  /\ UNCHANGED <<k, min_frequency, file_length, data, max_possible_count, min_count,
                 modulus, overflow, count_array, hash_table, top_one, hash_value, i,
                 calls, nresults, written, output>>

\* the print loop: each k-mer and its count over max_possible_count
PrintResults ==
  /\ pc = "print"
  /\ output' = [j \in 0..(nresults - 1) |->
                  [kmer |-> Window(data, results_array[j].index, k),
                   index |-> results_array[j].index,
                   count |-> results_array[j].count,
                   of |-> max_possible_count]]
  /\ pc' = "done"
  /\ UNCHANGED <<k, min_frequency, file_length, data, max_possible_count, min_count,
                 modulus, overflow, count_array, hash_table, top_one, hash_value, i,
                 calls, nresults, results_array, written>>

Next ==
  \/ CheckK
  \/ OpenFile
  \/ CheckLength
  \/ ReadFile
  \/ Setup
  \/ DoCountsStart
  \/ DoCountsOutOfBounds
  \/ DoCountsRoll
  \/ DoCountsReturn
  \/ GetNResults
  \/ FillResultsArray
  \/ Qsort
  \/ PrintResults

Spec == Init /\ [][Next]_vars

(***************************************************************************)
(* get_modulus on its own: the sizer applied to lengths up to the largest  *)
(* file main accepts.                                                      *)
(***************************************************************************)
RECURSIVE Pow(_, _)
Pow(b, e) == IF e = 0 THEN 1 ELSE b * Pow(b, e - 1)

SizerLengths ==
  (0..MaxSizerLen)
  \cup {n \in {Pow(2, e) \div 3 + d : e \in 1..30, d \in {0, 1}} : n <= MaxFileLength}
  \cup {MaxFileLength - 1, MaxFileLength}

SizerInit ==
  /\ pc = "get_modulus"
  /\ k = MinKmerSize
  /\ min_frequency = <<0, 1>>
  /\ file_length \in SizerLengths
  /\ data = <<>>
  /\ max_possible_count = 0
  /\ min_count = 0
  /\ modulus = 0
  /\ overflow = FALSE
  /\ count_array = <<>>
  /\ hash_table = <<>>
  /\ top_one = 0
  /\ hash_value = 0
  /\ i = 0
  /\ calls = <<>>
  /\ nresults = 0
  /\ results_array = <<>>
  /\ written = 0
  /\ output = <<>>

SizerCall ==
  /\ pc = "get_modulus"
  /\ modulus' = get_modulus(file_length).m
  /\ overflow' = get_modulus(file_length).overflow
  /\ pc' = "sized"
  /\ UNCHANGED <<k, min_frequency, file_length, data, max_possible_count, min_count,
                 count_array, hash_table, top_one, hash_value, i,
                 calls, nresults, results_array, written, output>>

SpecSizer == SizerInit /\ [][SizerCall]_vars

(***************************************************************************)
(* Vocabulary of the properties.                                           *)
(***************************************************************************)
\* main has passed its checks of k and of the file length, with k <= n
ValidRun ==
  /\ pc \notin {"check_k", "open_file", "check_length", "read_file", "setup",
                "exit_error", "get_modulus", "sized"}
  /\ MinKmerSize <= k
  /\ k <= file_length

\* do_counts has returned
Counted == ValidRun /\ pc \in {"counted", "select", "sort", "print", "done"}

\* do_counts has just returned: the state it leaves to main
CountingDone == ValidRun /\ pc = "counted"

\* the selection loop has run
Selected == ValidRun /\ pc \in {"sort", "print", "done", "heap_overflow", "undefined_output"}

\* qsort has returned
Sorted == ValidRun /\ pc \in {"print", "done"}

SameWindow(a, b) == \A j \in 0..(k - 1) : data[a + j] = data[b + j]

Starts == 0..(file_length - k)

\* the counter that the call of hash_add for start position s incremented
CounterOf(s) == calls[s + 1].counter

\* every start position has had its call of hash_add, in order
AllCalled ==
  /\ Len(calls) = file_length - k + 1
  /\ \A s \in Starts : calls[s + 1].index = s

RECURSIVE SumTo(_, _)
SumTo(f, n) == IF n = 0 THEN 0 ELSE f[n - 1] + SumTo(f, n - 1)

RECURSIVE PowMod(_, _, _)
PowMod(b, e, m) == IF e = 0 THEN 1 % m ELSE (b * PowMod(b, e - 1, m)) % m

RECURSIVE PolyTerms(_, _, _)
PolyTerms(start, j, m) ==
  IF j = k THEN 0
  ELSE ((data[start + j] * PowMod(BASE, k - 1 - j, m)) % m) + PolyTerms(start, j + 1, m)

\* the polynomial hash of the window at start, computed term by term
PolyHash(start, m) == PolyTerms(start, 0, m) % m

Occupied == {s \in DOMAIN hash_table : hash_table[s] # EmptySlot}

IsPowerOfTwo(m) == \E e \in 0..30 : m = Pow(2, e)

Threshold == {p \in 0..(file_length - k) : count_array[p] >= min_count}

(***************************************************************************)
(* The properties.                                                         *)
(***************************************************************************)

\* C1: after the counting pass, any two start positions whose k-byte windows
\* are identical had their occurrences added to the same counter, and the
\* table holds at most one representative per distinct k-byte content.
C1_SameContentSameCounter ==
  CountingDone =>
    /\ AllCalled
    /\ \A a, b \in Starts : SameWindow(a, b) => CounterOf(a) = CounterOf(b)
    /\ LET occupied == Occupied
       IN  \A s, t \in occupied : s # t => ~SameWindow(hash_table[s], hash_table[t])
    /\ \A a \in Starts : hash_table[calls[a + 1].slot] = CounterOf(a)

\* a run in which one k-mer occurs at three positions, the last two of which
\* found the representative in the table
C1_Witness ==
  /\ CountingDone
  /\ \E a, b, c \in Starts :
       /\ a < b /\ b < c
       /\ SameWindow(a, b) /\ SameWindow(b, c)
       /\ CounterOf(c) = a
       /\ count_array[a] >= 3

\* C2: after the counting pass, any two start positions whose k-byte windows
\* differ incremented different counters, also when their hash values are equal.
C2_DifferentContentDifferentCounter ==
  CountingDone =>
    \A a, b \in Starts : ~SameWindow(a, b) => CounterOf(a) # CounterOf(b)

\* two different k-mers with the same hash value, the second of which probed
\* past the first
C2_Witness ==
  /\ CountingDone
  /\ \E a, b \in Starts :
       /\ ~SameWindow(a, b)
       /\ calls[a + 1].hash_value = calls[b + 1].hash_value
       /\ calls[b + 1].steps > 0
       /\ CounterOf(a) # CounterOf(b)

\* C3: when do_counts finishes, the entries of count_array sum to n - k + 1:
\* hash_add ran once per start position and each call added one to one counter.
C3_CountsSum ==
  /\ Counted => AllCalled /\ SumTo(count_array, file_length) = file_length - k + 1
  /\ ValidRun /\ pc \in {"rolling", "counted"} =>
       SumTo(count_array, file_length) = Len(calls)

C3_Witness ==
  /\ Counted
  /\ file_length - k + 1 >= 4
  /\ \E a, b \in Starts : a # b /\ count_array[a] >= 2 /\ count_array[b] >= 1

CountSamples == {1, 2, 3, MaxFileLength - 1, MaxFileLength}

Sign(x) == IF x < 0 THEN -1 ELSE IF x > 0 THEN 1 ELSE 0

\* C5: after the sort, every adjacent pair of the result sequence has
\* count(a) >= count(b), the sequence is an arrangement of the selected
\* entries, and the comparator's subtraction stays within int for counts in
\* [1, 10^8], ordering the larger count first.
C5_DescendingOrder ==
  /\ Sorted =>
       /\ \A j \in 0..(nresults - 2) : results_array[j].count >= results_array[j + 1].count
       /\ {results_array[j] : j \in DOMAIN results_array}
            = {[index |-> p, count |-> count_array[p]] : p \in Threshold}
       /\ nresults = Cardinality(Threshold)
  /\ ValidRun /\ pc = "done" =>
       /\ DOMAIN output = 0..(nresults - 1)
       /\ \A j \in 0..(nresults - 2) : output[j].count >= output[j + 1].count
       /\ \A j \in 0..(nresults - 1) : output[j].count = count_array[output[j].index]
  /\ \A a, b \in CountSamples :
       /\ ~SubOverflows(b, a)
       /\ Sign(compare_sortme([index |-> 0, count |-> a], [index |-> 1, count |-> b]))
            = Sign(b - a)

\* a run in which the sort moved a later, more frequent k-mer ahead of an
\* earlier one, with a tie among the results
C5_Witness ==
  /\ pc = "done"
  /\ ValidRun
  /\ nresults >= 3
  /\ \E j \in 0..(nresults - 2) :
       output[j].count > output[j + 1].count /\ output[j].index > output[j + 1].index
  /\ \E j \in 0..(nresults - 2) : output[j].count = output[j + 1].count

\* C6: for 0 <= n <= 10^8, get_modulus(n) is the smallest power of two that
\* is at least 3n, nothing overflows, and get_modulus(0) = 1.
C6_SmallestPowerOfTwo ==
  pc = "sized" /\ file_length <= MaxFileLength =>
    /\ IsPowerOfTwo(modulus)
    /\ modulus >= 3 * file_length
    /\ modulus = 1 \/ modulus \div 2 < 3 * file_length
    /\ ~overflow
    /\ file_length = 0 => modulus = 1

C6_Witness ==
  /\ pc = "sized"
  /\ file_length = MaxFileLength
  /\ modulus = 536870912

\* C7: with 2 <= k <= 100 and k larger than the buffer length, the input is
\* rejected before counting begins: do_counts is never entered (main is at
\* most about to call it, and then takes an error exit instead).
C7_KLargerThanBufferRejected ==
  /\ MinKmerSize <= k /\ k <= MaxKmerSize
  /\ pc \notin {"check_k", "open_file"}
  /\ k > file_length
  => pc \in {"check_length", "read_file", "setup", "do_counts", "exit_error"}

\* C8: the hash value passed to hash_add for start position i is the
\* polynomial hash of the window at i modulo the modulus, and lies in
\* [0, modulus).
C8_RollingHashIsPolynomialHash ==
  ValidRun =>
    /\ \A c \in 1..Len(calls) :
         /\ calls[c].hash_value = PolyHash(calls[c].index, modulus)
         /\ calls[c].hash_value >= 0
         /\ calls[c].hash_value < modulus
    /\ pc # "do_counts" => top_one = PowMod(BASE, k, modulus)

\* a rolling update whose subtraction wrapped below zero, in a table whose
\* size does not divide BASE - 1
C8_Witness ==
  /\ Counted
  /\ BASE % modulus # 1
  /\ k = 3
  /\ \E c \in 1..(Len(calls) - 1) :
       /\ calls[c].hash_value * BASE + data[calls[c].index + k]
            < data[calls[c].index] * top_one
       /\ calls[c + 1].hash_value # calls[c].hash_value

\* C9: every call of hash_add terminates: at most n - k + 1 <= modulus / 3
\* slots are occupied, so the probe finds the k-mer or an empty slot in fewer
\* than modulus steps.
C9_ProbeTerminates ==
  ValidRun =>
    /\ pc # "hang"
    /\ \A c \in 1..Len(calls) : calls[c].steps < modulus
    /\ Cardinality(Occupied) <= Len(calls)
    /\ Len(calls) <= file_length - k + 1
    /\ 3 * (file_length - k + 1) <= modulus

\* a probe that went past the last slot of the table and ended in an empty
\* slot at its start
C9_Witness ==
  /\ Counted
  /\ \E c \in 1..Len(calls) :
       /\ calls[c].steps >= 2
       /\ calls[c].slot < calls[c].hash_value
       /\ calls[c].claimed

\* C10: for 2 <= k <= n and min_count >= 1, nresults equals the number of
\* entries the selection loop stores, because count_array is 0 at every
\* position above n - k; no entry is stored past the end of results_array and
\* none is read unwritten.
C10_NResultsMatchesSelection ==
  /\ Counted => \A p \in (file_length - k + 1)..(file_length - 1) : count_array[p] = 0
  /\ ValidRun => min_count >= 1
  /\ Selected =>
       /\ nresults = written
       /\ pc \notin {"heap_overflow", "undefined_output"}
       /\ \A j \in DOMAIN results_array : results_array[j] # Uninitialized

C10_Witness ==
  /\ Selected
  /\ k >= 3
  /\ nresults >= 2
  /\ nresults = written
  /\ nresults < file_length - k + 1

====
